---- MODULE Spec2Model ----
(***************************************************************************)
(* Model of app.py, the Streamlit attendance application.                  *)
(*                                                                         *)
(* Every browser session runs the script from the top on each event (a     *)
(* button click, a sidebar change, a component value arriving).  Sessions  *)
(* run in their own threads, so their script runs interleave at the        *)
(* Firestore calls and at the clock reads; one script run of one session   *)
(* is sequential.  A python dict is a function whose DOMAIN is its key     *)
(* set; a Firestore collection is a function from the ids of the existing  *)
(* documents to their dicts; the attendance collection, whose ids are      *)
(* auto-generated, is the sequence of its documents in insertion order.    *)
(* Positions are points of one meridian, named by their offset in metres   *)
(* from the point 0; instants are clock ticks.                             *)
(***************************************************************************)
EXTENDS Integers, Sequences, FiniteSets, TLC

VARIABLES
    now,         \* the UTC clock, in ticks
    shops,       \* collection "shops": shop id -> dict
    users,       \* collection "users": <<shop id, name>> -> dict
    attendance,  \* collection "attendance": sequence of dicts
    session,     \* st.session_state of each session: a dict
    choice,      \* the sidebar radio of each session
    buttons,     \* the buttons the running (or last) script run has rendered
    clicked,     \* the button whose click started the running script run
    pc,          \* where the script run of each session stands
    frame,       \* the local variables of the running script run: a dict
    msgs,        \* the boxes of the run that report a decision
    written,     \* how many attendance documents the run has inserted
    waited       \* history: the session was kept waiting for its location

vars == <<now, shops, users, attendance, session, choice, buttons, clicked,
          pc, frame, msgs, written, waited>>

\* ---------------------------------------------------------------- bounds
MaxTime == 2
TicksPerDay == 2
MaxRecords == 2

\* ---------------------------------------------------------------- inputs
\* two browser sessions; what their users type, pick and report
Sessions == {"tabA", "tabB"}
ShopIds == {"s1"}
UserNames == {"u1", "u2"}
TypedPins == {"1234", "0000"}
ShopPins == {"1234"}
ShopNames == {"Shop"}
ShopPoints == {0}
UserPoints == {100, 150}
Radii == {100}
Days == {1}
Selfies == {<<>>}
AdminKeys == {"key", "guess"}
\* the sidebar choices a session's user makes
Choices(s) == IF s = "tabB" THEN {"Employee", "Admin"} ELSE {"Employee"}

None == <<>>
Some(v) == <<v>>

\* ------------------------------------------------------------ python glue
Get(d, k, default) == IF k \in DOMAIN d THEN d[k] ELSE default
Put(d, k, v) == (k :> v) @@ d

\* datetime: the tick and whether the value carries tzinfo
utcnow == [t |-> now, tz |-> "naive"]
timedelta(days) == days * TicksPerDay
replace_tzinfo_None(dt) == [dt EXCEPT !.tz = "naive"]
\* a datetime read back from Firestore is timezone-aware UTC
Stored(dt) == [dt EXCEPT !.tz = "UTC"]
date(dt) == dt.t \div TicksPerDay

sha256(info) == <<"sha256", info>>
b64encode(bytes) == IF bytes = None THEN None ELSE Some(<<"b64", bytes[1]>>)

Abs(x) == IF x < 0 THEN -x ELSE x
geodesic(p, q) == Abs(p[1] - q[1])

secrets_admin_key == "key"
DefaultRadius == 150

\* ---------------------------------------------------------- pure functions
get_device_hash(state) == sha256(Get(state, "device_info", "default_device"))

\* variant: a shop without an expiry counts as subscribed
is_subscription_active_open(shop_data, clock) ==
    IF "subscription_ends" \notin DOMAIN shop_data THEN TRUE
    ELSE replace_tzinfo_None(shop_data["subscription_ends"]).t > clock.t

\* variant: the comparison admits the instant of expiry
is_subscription_active_inclusive(shop_data, clock) ==
    IF "subscription_ends" \notin DOMAIN shop_data THEN FALSE
    ELSE replace_tzinfo_None(shop_data["subscription_ends"]).t >= clock.t

is_subscription_active(shop_data, clock) ==
    IF "subscription_ends" \notin DOMAIN shop_data THEN FALSE
    ELSE replace_tzinfo_None(shop_data["subscription_ends"]).t > clock.t

\* variant: the insert is skipped when the day already has a document
save_attendance_guarded(coll, doc) ==
    IF \E i \in 1..Len(coll) :
           /\ coll[i].shop_id = doc.shop_id
           /\ coll[i].user_id = doc.user_id
           /\ date(coll[i].timestamp) = date(doc.timestamp)
    THEN coll
    ELSE Append(coll, [doc EXCEPT !.timestamp = Stored(@)])

\* variant: the document id is the user's, so a set() overwrites
save_attendance_keyed(coll, doc) ==
    IF \E i \in 1..Len(coll) :
           coll[i].shop_id = doc.shop_id /\ coll[i].user_id = doc.user_id
    THEN [i \in 1..Len(coll) |->
             IF coll[i].shop_id = doc.shop_id /\ coll[i].user_id = doc.user_id
             THEN [doc EXCEPT !.timestamp = Stored(@)] ELSE coll[i]]
    ELSE Append(coll, [doc EXCEPT !.timestamp = Stored(@)])

save_attendance(coll, doc) == Append(coll, [doc EXCEPT !.timestamp = Stored(@)])

AttendanceDoc(shop_id, user_id, ts, lat, lon, distance_m, selfie_b64) ==
    [shop_id |-> shop_id, user_id |-> user_id, timestamp |-> ts,
     lat |-> lat, lon |-> lon, distance_m |-> distance_m,
     selfie_b64 |-> selfie_b64]

\* variant: any earlier document of the user counts
has_attended_ever(coll, shop_id, user_name, today) ==
    \E i \in 1..Len(coll) :
        /\ coll[i].shop_id = shop_id
        /\ coll[i].user_id = user_name

has_attended_today(coll, shop_id, user_name, today) ==
    \E i \in 1..Len(coll) :
        /\ coll[i].shop_id = shop_id
        /\ coll[i].user_id = user_name
        /\ date(coll[i].timestamp) = today

\* variant: the boundary counts as outside
WithinRadiusStrict(distance_m, radius) == distance_m < radius

WithinRadius(distance_m, radius) == distance_m <= radius

\* ------------------------------------------------------------------ Init
\* The collections as the program finds them.  The shops collection is
\* empty, or holds a shop written outside this program: one with no radius
\* field (line 159 gives it the default), or one with no subscription_ends
\* field (line 32).  The users collection holds a user bound to another
\* device, the case line 107 tells the user to take to the admin.
LegacyShops ==
    { <<>>,
      "s1" :> [name |-> "Shop", pin |-> "1234", lat |-> 0, lon |-> 0,
               subscription_ends |-> [t |-> TicksPerDay, tz |-> "UTC"]],
      "s1" :> [name |-> "Shop", pin |-> "1234", lat |-> 0, lon |-> 0,
               radius |-> 100] }

LegacyUsers ==
    { <<"s1", "u2">> :> [name |-> "u2", shop_id |-> "s1",
                         device_hash |-> sha256("phone-A")] }

Init ==
    /\ now = 0
    /\ shops \in LegacyShops
    /\ users \in LegacyUsers
    /\ attendance = <<>>
    /\ session = [s \in Sessions |-> <<>>]
    /\ choice = [s \in Sessions |-> "Employee"]
    /\ buttons = [s \in Sessions |-> {}]
    /\ clicked = [s \in Sessions |-> "none"]
    /\ pc = [s \in Sessions |-> "idle"]
    /\ frame = [s \in Sessions |-> <<>>]
    /\ msgs = [s \in Sessions |-> {}]
    /\ written = [s \in Sessions |-> 0]
    /\ waited = [s \in Sessions |-> FALSE]

\* --------------------------------------------------------------- helpers
LOGIN == "Login / Register"
SUBMIT == "Submit Attendance"
LOGOUT == "Logout"
LOGIN_ADMIN == "Login Admin"
CREATE_SHOP == "Create Shop"

\* the boxes
WRONG_PIN == "Wrong PIN"
DEVICE_MISMATCH == "Device mismatch! Ask admin to reset device."
EXPIRED == "Subscription expired"
ALREADY == "You have already marked attendance today"
WAITING == "Waiting for location permission..."
WITHIN == "Attendance marked (within radius)"
OUTSIDE == "Marked but OUTSIDE radius"
EXCEPTION == "TypeError"
Marked == {WITHIN, OUTSIDE}

Locations == {None} \cup {Some([lat |-> p, lon |-> 0]) : p \in UserPoints}

Goto(s, label, f) ==
    /\ pc' = [pc EXCEPT ![s] = label]
    /\ frame' = [frame EXCEPT ![s] = f]
    /\ clicked' = clicked

\* the script run ends (a return, or the end of the script)
End(s) ==
    /\ pc' = [pc EXCEPT ![s] = "idle"]
    /\ frame' = [frame EXCEPT ![s] = <<>>]
    /\ clicked' = [clicked EXCEPT ![s] = "none"]

Show(s, m) == msgs' = [msgs EXCEPT ![s] = @ \cup m]
Render(s, b) == buttons' = [buttons EXCEPT ![s] = @ \cup b]

LoggedIn(state, shop_id, user_name) ==
    Put(Put(Put(state, "logged_in", TRUE), "shop_id", shop_id),
        "user_name", user_name)

\* the main router
Router(c, state) ==
    IF c = "Employee"
    THEN IF "logged_in" \notin DOMAIN state THEN "employee_page"
         ELSE "attendance_page"
    ELSE "admin_page"

\* submissions that are running and have not inserted their document yet
Pending == {t \in Sessions : clicked[t] = SUBMIT /\ written[t] = 0}

\* --------------------------------------------------------- a run starts
Begin(s, btn, c, state) ==
    /\ pc[s] = "idle"
    /\ clicked' = [clicked EXCEPT ![s] = btn]
    /\ choice' = [choice EXCEPT ![s] = c]
    /\ session' = [session EXCEPT ![s] = state]
    /\ msgs' = [msgs EXCEPT ![s] = {}]
    /\ written' = [written EXCEPT ![s] = 0]
    /\ frame' = [frame EXCEPT ![s] = <<>>]
    /\ buttons' = [buttons EXCEPT ![s] =
          IF c = "Employee" /\ "logged_in" \in DOMAIN state
          THEN {LOGOUT} ELSE {}]
    /\ pc' = [pc EXCEPT ![s] = Router(c, state)]
    /\ UNCHANGED <<now, shops, users, attendance>>

\* waited[s]: the session was shown the location warning, and every run
\* since then has ended with the Submit button drawn and nothing inserted
StillWaited(s) ==
    \/ WAITING \in msgs[s]
    \/ waited[s] /\ SUBMIT \in buttons[s] /\ written[s] = 0

\* the sidebar radio changes, or a component value arrives
Rerun(s) ==
    \E c \in Choices(s) :
        /\ Begin(s, "none", c, session[s])
        /\ waited' = [waited EXCEPT ![s] = StillWaited(s)]

ClickLogin(s) ==
    /\ LOGIN \in buttons[s]
    /\ Begin(s, LOGIN, choice[s], session[s])
    /\ waited' = [waited EXCEPT ![s] = StillWaited(s)]

ClickSubmit(s) ==
    /\ SUBMIT \in buttons[s]
    /\ Len(attendance) + Cardinality(Pending) < MaxRecords
    /\ Begin(s, SUBMIT, choice[s], session[s])
    /\ waited' = [waited EXCEPT ![s] = StillWaited(s)]

\* on_click=lambda: st.session_state.clear(), then the script runs
ClickLogout(s) ==
    /\ LOGOUT \in buttons[s]
    /\ Begin(s, LOGOUT, choice[s], <<>>)
    /\ waited' = [waited EXCEPT ![s] = FALSE]

ClickLoginAdmin(s) ==
    /\ LOGIN_ADMIN \in buttons[s]
    /\ Begin(s, LOGIN_ADMIN, choice[s], session[s])
    /\ waited' = [waited EXCEPT ![s] = StillWaited(s)]

ClickCreateShop(s) ==
    /\ CREATE_SHOP \in buttons[s]
    /\ Begin(s, CREATE_SHOP, choice[s], session[s])
    /\ waited' = [waited EXCEPT ![s] = StillWaited(s)]

\* --------------------------------------------------------- employee_page
\* lines 80-90: the shops are listed, the form is drawn
EmployeePage(s) ==
    /\ pc[s] = "employee_page"
    /\ IF DOMAIN shops = {}
       THEN /\ End(s)
            /\ UNCHANGED buttons
       ELSE /\ Render(s, {LOGIN})
            /\ IF clicked[s] # LOGIN
               THEN End(s)
               ELSE \E shop_id \in DOMAIN shops :
                        Goto(s, "emp_shop_get", [shop_id |-> shop_id])
    /\ UNCHANGED <<now, shops, users, attendance, session, choice, msgs,
                   written, waited>>

\* pin != str(shop_data.get("pin"))
PinMatches(pin, shop_data) == pin = Get(shop_data, "pin", "None")

\* lines 91-98, with the PIN and the name the user typed
EmpShopGet(s) ==
    /\ pc[s] = "emp_shop_get"
    /\ \E pin \in TypedPins, user_name \in UserNames :
       IF frame[s]["shop_id"] \notin DOMAIN shops
       THEN UNCHANGED msgs /\ End(s)
       ELSE IF ~PinMatches(pin, shops[frame[s]["shop_id"]])
       THEN Show(s, {WRONG_PIN}) /\ End(s)
       ELSE /\ UNCHANGED msgs
            /\ Goto(s, "emp_user_get",
                    [shop_id |-> frame[s]["shop_id"], pin |-> pin,
                     user_name |-> user_name])
    /\ UNCHANGED <<now, shops, users, attendance, session, choice,
                   buttons, written, waited>>

UserKey(shop_id, user_name) == <<shop_id, user_name>>

\* user_data.get("device_hash") != device_hash
DeviceMatches(user_data, device_hash) ==
    Get(user_data, "device_hash", None) = device_hash

\* variant: the handler writes the user document on every login
MustRegisterAlways(coll, key) == TRUE

\* whether the Login / Register handler writes the user document
MustRegister(coll, key) == key \notin DOMAIN coll

\* lines 100-108, and 116-119 when the stored hash matches
EmpUserGet(s) ==
    /\ pc[s] = "emp_user_get"
    /\ LET device_hash == get_device_hash(session[s])
           key == UserKey(frame[s]["shop_id"], frame[s]["user_name"])
       IN
       IF ~MustRegister(users, key)
       THEN IF ~DeviceMatches(users[key], device_hash)
            THEN /\ Show(s, {DEVICE_MISMATCH})
                 /\ End(s)
                 /\ UNCHANGED session
            ELSE /\ session' = [session EXCEPT ![s] =
                        LoggedIn(@, frame[s]["shop_id"], frame[s]["user_name"])]
                 /\ UNCHANGED msgs
                 /\ Goto(s, "attendance_page", <<>>)
       ELSE /\ Goto(s, "emp_user_set",
                    Put(frame[s], "device_hash", device_hash))
            /\ UNCHANGED <<session, msgs>>
    /\ UNCHANGED <<now, shops, users, attendance, choice, buttons,
                   written, waited>>

\* variant: the user document is not written
RegisterUserLost(coll, key, device_hash) == coll

RegisterUser(coll, key, device_hash) ==
    Put(coll, key, [name |-> key[2], shop_id |-> key[1],
                    device_hash |-> device_hash])

\* lines 110-119
EmpUserSet(s) ==
    /\ pc[s] = "emp_user_set"
    /\ users' = RegisterUser(users,
                    UserKey(frame[s]["shop_id"], frame[s]["user_name"]),
                    frame[s]["device_hash"])
    /\ session' = [session EXCEPT ![s] =
            LoggedIn(@, frame[s]["shop_id"], frame[s]["user_name"])]
    /\ Goto(s, "attendance_page", <<>>)
    /\ UNCHANGED <<now, shops, attendance, choice, buttons, msgs, written,
                   waited>>

\* ------------------------------------------------------- attendance_page
\* shop.get("radius", 150)
ShopRadius(shop) == Get(shop, "radius", DefaultRadius)

\* lines 127-133: the shop is read and its subscription checked; when it
\* is active, has_attended_today starts and reads today's date (line 59).
\* The frame keeps of the shop what the rest of the run reads.
AttendancePage(s) ==
    /\ pc[s] = "attendance_page"
    /\ LET shop_id == session[s]["shop_id"]
           user_name == session[s]["user_name"]
           shop == shops[shop_id]
       IN IF ~is_subscription_active(shop, utcnow)
          THEN /\ Show(s, {EXPIRED})
               /\ End(s)
          ELSE /\ Goto(s, "hat_query",
                       [shop_id |-> shop_id, user_name |-> user_name,
                        shop_lat |-> shop["lat"], shop_lon |-> shop["lon"],
                        radius |-> ShopRadius(shop),
                        today |-> date(utcnow)])
               /\ UNCHANGED msgs
    /\ UNCHANGED <<now, shops, users, attendance, session, choice, buttons,
                   written, waited>>

\* variant: the None test is missing
LocationMissingNever(location) == FALSE

\* if location is None
LocationMissing(location) == location = None

\* has_attended_today: the query and the scan (lines 60-72); then lines
\* 135-163 and, on Submit, the dict of save_attendance with its utcnow();
\* without a Submit the run ends with the history table (lines 175-187),
\* which only reads
HatQuery(s) ==
    /\ pc[s] = "hat_query"
    /\ LET f == frame[s] IN
       IF has_attended_today(attendance, f["shop_id"], f["user_name"],
                             f["today"])
       THEN /\ Show(s, {ALREADY})
            /\ End(s)
            /\ UNCHANGED <<buttons, waited>>
       ELSE \E location \in Locations :
            IF LocationMissing(location)
            THEN /\ Show(s, {WAITING})
                 /\ End(s)
                 /\ waited' = [waited EXCEPT ![s] = TRUE]
                 /\ UNCHANGED buttons
            ELSE IF location = None
            \* location["lat"] on None raises: the run ends in the
            \* exception box
            THEN /\ Show(s, {EXCEPTION})
                 /\ End(s)
                 /\ UNCHANGED <<buttons, waited>>
            ELSE /\ Render(s, {SUBMIT})
                 /\ UNCHANGED <<msgs, waited>>
                 /\ IF clicked[s] = SUBMIT
                    THEN \E selfie \in Selfies :
                         LET lat == location[1].lat
                             lon == location[1].lon
                             distance_m ==
                                 geodesic(<<lat, lon>>,
                                          <<f["shop_lat"], f["shop_lon"]>>)
                         IN Goto(s, "save_set",
                                 [today |-> f["today"],
                                  radius |-> f["radius"],
                                  doc |-> AttendanceDoc(f["shop_id"],
                                      f["user_name"], utcnow, lat, lon,
                                      distance_m, b64encode(selfie))])
                    ELSE End(s)
    /\ UNCHANGED <<now, shops, users, attendance, session, choice, written>>

\* doc_ref.set(...) of save_attendance, then lines 167-170 and the history
\* table (lines 175-187), which only reads
SaveSet(s) ==
    /\ pc[s] = "save_set"
    /\ attendance' = save_attendance(attendance, frame[s]["doc"])
    /\ written' = [written EXCEPT ![s] =
                      @ + Len(attendance') - Len(attendance)]
    /\ IF WithinRadius(frame[s]["doc"].distance_m, frame[s]["radius"])
       THEN Show(s, {WITHIN})
       ELSE Show(s, {OUTSIDE})
    /\ End(s)
    /\ UNCHANGED <<now, shops, users, session, choice, buttons, waited>>

\* ------------------------------------------------------------ admin_page
\* lines 195-205; without a Create Shop click the run ends with the reports
\* and the users list (lines 228-247), which only read
AdminPage(s) ==
    /\ pc[s] = "admin_page"
    /\ \E key \in AdminKeys :
        IF clicked[s] = LOGIN_ADMIN /\ key # secrets_admin_key
        THEN /\ Render(s, {LOGIN_ADMIN})
             /\ End(s)
             /\ UNCHANGED session
        ELSE LET state == IF clicked[s] = LOGIN_ADMIN
                          THEN Put(session[s], "admin", TRUE)
                          ELSE session[s]
             IN /\ session' = [session EXCEPT ![s] = state]
                /\ IF "admin" \notin DOMAIN state
                   THEN Render(s, {LOGIN_ADMIN}) /\ End(s)
                   ELSE /\ Render(s, {LOGIN_ADMIN, CREATE_SHOP})
                        /\ IF clicked[s] = CREATE_SHOP
                           THEN Goto(s, "create_shop", frame[s])
                           ELSE End(s)
    /\ UNCHANGED <<now, shops, users, attendance, choice, msgs, written,
                   waited>>

ShopDoc(sname, spin, slat, slon, rad, days, clock) ==
    [name |-> sname, pin |-> spin, lat |-> slat, lon |-> slon,
     radius |-> rad,
     subscription_ends |-> Stored([clock EXCEPT !.t = @ + timedelta(days)])]

\* lines 217-226, then the reports and the users list
CreateShop(s) ==
    /\ pc[s] = "create_shop"
    /\ \E sid \in ShopIds, sname \in ShopNames, spin \in ShopPins,
          slat \in ShopPoints, rad \in Radii, days \in Days :
          shops' = Put(shops, sid,
                       ShopDoc(sname, spin, slat, 0, rad, days, utcnow))
    /\ End(s)
    /\ UNCHANGED <<now, users, attendance, session, choice, buttons, msgs,
                   written, waited>>

\* ------------------------------------------------------------- the clock
Tick ==
    /\ now < MaxTime
    /\ now' = now + 1
    /\ UNCHANGED <<shops, users, attendance, session, choice, buttons,
                   clicked, pc, frame, msgs, written, waited>>

Next ==
    \/ Tick
    \/ \E s \in Sessions :
        \/ Rerun(s)
        \/ ClickLogin(s)
        \/ ClickSubmit(s)
        \/ ClickLogout(s)
        \/ ClickLoginAdmin(s)
        \/ ClickCreateShop(s)
        \/ EmployeePage(s)
        \/ EmpShopGet(s)
        \/ EmpUserGet(s)
        \/ EmpUserSet(s)
        \/ AttendancePage(s)
        \/ HatQuery(s)
        \/ SaveSet(s)
        \/ AdminPage(s)
        \/ CreateShop(s)

Spec == Init /\ [][Next]_vars

\* ================================================================ claims
SameDay(a, b) ==
    /\ a.shop_id = b.shop_id
    /\ a.user_id = b.user_id
    /\ date(a.timestamp) = date(b.timestamp)

\* the documents of a shop's user whose timestamp falls on a day
OnDay(coll, shop_id, user_id, day) ==
    {i \in 1..Len(coll) : /\ coll[i].shop_id = shop_id
                          /\ coll[i].user_id = user_id
                          /\ date(coll[i].timestamp) = day}

Acts(s) == pc'[s] # pc[s]
IsLoggedIn(s) == "logged_in" \in DOMAIN session[s]

\* C1: for every shop, user and UTC day the attendance collection holds at
\* most one document of that shop and user with a timestamp on that day.
C1_AtMostOnePerDay ==
    \A i, j \in 1..Len(attendance) :
        SameDay(attendance[i], attendance[j]) => i = j

\* what C2 asks of one step
C2_DeviceLockStep ==
    /\ \A k \in DOMAIN users :
          /\ k \in DOMAIN users'
          /\ users'[k]["device_hash"] = users[k]["device_hash"]
    /\ \A s \in Sessions :
          LET k == <<frame[s]["shop_id"], frame[s]["user_name"]>> IN
          ( /\ pc[s] = "emp_user_get"
            /\ Acts(s)
            /\ k \in DOMAIN users
            /\ users[k]["device_hash"] #
                   sha256(Get(session[s], "device_info", "default_device")) )
          => /\ pc'[s] = "idle"
             /\ DEVICE_MISMATCH \in msgs'[s]
             /\ session'[s] = session[s]
             /\ "logged_in" \notin DOMAIN session'[s]
             /\ users' = users

\* C2: a user document that exists keeps its device_hash whatever is
\* attempted, and a Login / Register whose device hash differs from the
\* stored one is rejected: the box says so, the session is not logged in and
\* the users collection is not written.
C2_DeviceLock == [][C2_DeviceLockStep]_vars

C2_Witness ==
    \E s \in Sessions :
        /\ pc[s] = "idle"
        /\ DEVICE_MISMATCH \in msgs[s]
        /\ ~IsLoggedIn(s)
        /\ \E t \in Sessions : IsLoggedIn(t)

\* the shop of a logged-in session is not subscribed at this instant
NotSubscribedNow(s) ==
    LET shop == shops[session[s]["shop_id"]] IN
    \/ "subscription_ends" \notin DOMAIN shop
    \/ shop["subscription_ends"].t <= now

\* what C3 asks of one step
C3_ExpiredStep ==
    \A s \in Sessions :
        (pc[s] = "attendance_page" /\ Acts(s) /\ NotSubscribedNow(s))
        => /\ pc'[s] = "idle"
           /\ EXPIRED \in msgs'[s]
           /\ SUBMIT \notin buttons'[s]
           /\ attendance' = attendance

\* C3: when the shop's subscription is not active as the attendance page is
\* evaluated, the run ends with the expiry box before any location is asked
\* for, draws no Submit button and writes no attendance document.
C3_ExpiredWritesNothing ==
    /\ [](\A s \in Sessions :
            EXPIRED \in msgs[s] =>
                written[s] = 0 /\ msgs[s] \cap Marked = {})
    /\ [][C3_ExpiredStep]_vars

C3_Witness ==
    \E s \in Sessions :
        /\ pc[s] = "idle"
        /\ EXPIRED \in msgs[s]
        /\ waited[s]
        /\ IsLoggedIn(s)

\* what C4 asks of one step
C4_CheckStep ==
    \A s \in Sessions :
        (pc[s] = "hat_query" /\ Acts(s)) =>
            IF OnDay(attendance, frame[s]["shop_id"], frame[s]["user_name"],
                     frame[s]["today"]) # {}
            THEN /\ pc'[s] = "idle"
                 /\ ALREADY \in msgs'[s]
                 /\ attendance' = attendance
            ELSE ALREADY \notin msgs'[s]

\* C4: a has_attended_today check made for a day on which the collection
\* holds a document of the shop's user answers true: the run ends with the
\* already-marked box and writes nothing; made for a day on which it holds
\* none (the date has rolled over) it answers false.
C4_AlreadyMarked ==
    /\ [](\A s \in Sessions : ALREADY \in msgs[s] => written[s] = 0)
    /\ [][C4_CheckStep]_vars

C4_Witness ==
    \E s, t \in Sessions :
        /\ pc[s] = "idle"
        /\ ALREADY \in msgs[s]
        /\ pc[t] = "save_set"
        /\ session[t]["user_name"] = session[s]["user_name"]
        /\ \E i \in 1..Len(attendance) :
              /\ attendance[i].user_id = session[t]["user_name"]
              /\ date(attendance[i].timestamp) < frame[t]["today"]

\* what C5 asks of one step
C5_SubmitStep ==
    \A s \in Sessions :
        /\ (pc[s] = "attendance_page" /\ pc'[s] = "hat_query") =>
              LET shop == shops[session[s]["shop_id"]] IN
              /\ frame'[s]["radius"] =
                    IF "radius" \in DOMAIN shop THEN shop["radius"] ELSE 150
              /\ frame'[s]["shop_lat"] = shop["lat"]
        /\ (pc[s] = "hat_query" /\ clicked[s] = SUBMIT
                                 /\ SUBMIT \in buttons'[s]) =>
              pc'[s] = "save_set"
        /\ (pc[s] = "hat_query" /\ pc'[s] = "save_set") =>
              LET doc == frame'[s]["doc"] IN
              /\ doc.distance_m = Abs(doc.lat - frame[s]["shop_lat"])
              /\ frame'[s]["radius"] = frame[s]["radius"]
        /\ (pc[s] = "save_set" /\ Acts(s)) =>
              LET doc == frame[s]["doc"] IN
              /\ Len(attendance') = Len(attendance) + 1
              /\ SubSeq(attendance', 1, Len(attendance)) = attendance
              /\ attendance'[Len(attendance')].distance_m = doc.distance_m
              /\ attendance'[Len(attendance')].lat = doc.lat
              /\ msgs'[s] \cap Marked =
                    IF doc.distance_m <= frame[s]["radius"]
                    THEN {WITHIN} ELSE {OUTSIDE}

\* C5: a Submit with a location persists exactly one document, which
\* carries the distance between the reported point and the shop; the box is
\* the within-radius one iff that distance <= the radius, where the radius
\* is the shop's, or 150 when the shop has none, and the outside one
\* otherwise.
C5_SubmitOutcome == [][C5_SubmitStep]_vars

C5_Witness ==
    \E s \in Sessions :
        /\ pc[s] = "idle"
        /\ WITHIN \in msgs[s]
        /\ written[s] = 1
        /\ "radius" \notin DOMAIN shops[session[s]["shop_id"]]
        /\ Len(attendance) = 1
        /\ attendance[1].distance_m = DefaultRadius

\* C6: is_subscription_active answers true iff the shop has a
\* subscription_ends and it is strictly later than the clock: false without
\* the field, false at the very instant of expiry.
C6_SubscriptionActive ==
    \A id \in DOMAIN shops :
        is_subscription_active(shops[id], utcnow)
        <=> /\ "subscription_ends" \in DOMAIN shops[id]
            /\ shops[id]["subscription_ends"].t > now

C6_Witness ==
    \E s \in Sessions :
        /\ pc[s] = "idle"
        /\ EXPIRED \in msgs[s]
        /\ "subscription_ends" \in DOMAIN shops[session[s]["shop_id"]]
        /\ shops[session[s]["shop_id"]]["subscription_ends"].t = now

\* what C7 asks of one step
C7_AppendOnlyStep ==
    /\ \/ attendance' = attendance
       \/ /\ Len(attendance') = Len(attendance) + 1
          /\ \A i \in 1..Len(attendance) : attendance'[i] = attendance[i]
    /\ \A s \in Sessions :
          (msgs'[s] \cap Marked # {} /\ msgs[s] \cap Marked = {})
          => Len(attendance') = Len(attendance) + 1
    /\ attendance' # attendance =>
          \E s \in Sessions :
              /\ pc[s] = "save_set"
              /\ Acts(s)
              /\ msgs'[s] \cap Marked # {}
              /\ written'[s] = 1

\* C7: every step leaves the attendance collection as it is or appends
\* exactly one document to it: no document is changed or removed; and a
\* step appends iff it is the insert of a submission, which then reports
\* the attendance as marked.
C7_AppendOnly == [][C7_AppendOnlyStep]_vars

C7_Witness ==
    /\ Len(attendance) = MaxRecords
    /\ \E s \in Sessions : written[s] = 1 /\ OUTSIDE \in msgs[s]
    /\ \E s \in Sessions : "admin" \in DOMAIN session[s]

\* what C8 asks of one step
C8_RaceStep ==
    \A s \in Sessions :
        LET doc == frame[s]["doc"] IN
        ( /\ pc[s] = "save_set"
          /\ Acts(s)
          /\ OnDay(attendance, doc.shop_id, doc.user_id,
                   date(doc.timestamp)) # {} )
        => /\ Len(attendance') = Len(attendance) + 1
           /\ Cardinality(OnDay(attendance', doc.shop_id, doc.user_id,
                                date(doc.timestamp))) >= 2

\* C8: the check and the insert are separate steps: a submission that has
\* passed has_attended_today inserts its document even when, by then, the
\* collection holds a document of the same shop, user and day, which
\* leaves two of them.
C8_CheckThenInsert == [][C8_RaceStep]_vars

C8_Witness ==
    \E s, t \in Sessions :
        /\ s # t
        /\ written[s] = 1
        /\ written[t] = 1
        /\ session[s]["user_name"] = session[t]["user_name"]
        /\ Len(attendance) = 2
        /\ SameDay(attendance[1], attendance[2])

\* what C9 asks of one step
C9_WaitingStep ==
    \A s \in Sessions :
        ( /\ pc[s] = "hat_query"
          /\ pc'[s] = "idle"
          /\ ALREADY \notin msgs'[s]
          /\ SUBMIT \notin buttons'[s] )
        => /\ msgs'[s] = {WAITING}
           /\ attendance' = attendance
           /\ session'[s] = session[s]
           /\ "logged_in" \in DOMAIN session'[s]

\* C9: when no location is supplied, a run that has passed both checks
\* ends with the waiting warning and nothing else: no exception, no
\* document written, the session still logged in; the session can record
\* its attendance in a later run.
C9_Waiting ==
    /\ [](\A s \in Sessions :
            WAITING \in msgs[s] => written[s] = 0 /\ IsLoggedIn(s))
    /\ [][C9_WaitingStep]_vars

C9_Witness ==
    \E s \in Sessions :
        /\ waited[s]
        /\ written[s] = 1
        /\ msgs[s] \cap Marked # {}

\* what C10 asks of one step
C10_LoginStep ==
    \A s \in Sessions :
        /\ (pc'[s] = "emp_user_get" /\ Acts(s)) =>
              frame'[s]["pin"] = shops[frame'[s]["shop_id"]]["pin"]
        /\ ("logged_in" \in DOMAIN session'[s] /\ ~IsLoggedIn(s)) =>
              /\ pc[s] \in {"emp_user_get", "emp_user_set"}
              /\ <<frame[s]["shop_id"], frame[s]["user_name"]>>
                     \in DOMAIN users'
        /\ (msgs'[s] \cap {WRONG_PIN, DEVICE_MISMATCH} # {} /\ Acts(s)) =>
              /\ session'[s] = session[s]
              /\ ~IsLoggedIn(s)

\* C10: every attendance document belongs to a (shop, user) that has a
\* user document, as does every logged-in session; a session becomes
\* logged in only in the Login / Register handler, after the typed PIN
\* equalled the shop's, and a login that fails on the PIN or on the device
\* leaves the session as it was.
C10_RecordsHaveUsers ==
    /\ [](/\ \A i \in 1..Len(attendance) :
               <<attendance[i].shop_id, attendance[i].user_id>>
                   \in DOMAIN users
          /\ \A s \in Sessions :
               IsLoggedIn(s) =>
                   <<session[s]["shop_id"], session[s]["user_name"]>>
                       \in DOMAIN users)
    /\ [][C10_LoginStep]_vars

C10_Witness ==
    /\ Len(attendance) >= 1
    /\ \E s \in Sessions : pc[s] = "idle" /\ WRONG_PIN \in msgs[s]

====
